---- MODULE Spec2Model ----
(***************************************************************************)
(* DocuPR: the classification-and-aggregation pipeline.                    *)
(*                                                                         *)
(* A response text is a sequence of tokens, each token a piece of the      *)
(* text that the code never cuts in two: a whitespace character, a period, *)
(* a word, a code fence, a JSON punctuation mark, a JSON literal.  The     *)
(* string operations of the code (strip, find, rfind, slicing, split,      *)
(* lower, "in") are defined on these sequences position by position.       *)
(* A JSON value is a record [t, a, keys, items]: t its Python type, a the  *)
(* text of an atom, keys/items the keys and values of a dict in insertion  *)
(* order, items alone the entries of a list.                               *)
(***************************************************************************)
EXTENDS Integers, Sequences, FiniteSets, TLC

VARIABLES
    pc,                    \* position of the operation under way
    content,               \* the response text handed to _parse_openai_response
    parsed,                \* the outcome of _parse_openai_response
    pr_details,            \* the argument of analyze_pr
    cls,                   \* what the classifier call did: returned a text or raised
    analysis,              \* the outcome of analyze_pr
    outstanding,           \* classifier requests issued and not yet answered
    request_count,         \* OpenAIAnalyzer.request_count
    last_request_time,     \* OpenAIAnalyzer.last_request_time
    rate_limit_per_minute, \* OpenAIAnalyzer.rate_limit_per_minute
    now,                   \* time.time(), in seconds
    slept,                 \* seconds the last _rate_limit call spent in time.sleep
    calls,                 \* the _rate_limit calls so far: issued at, returned at
    caller,                \* who called analyze_pr: "direct" or "analyze_repository"
    env,                   \* the environment: which credentials are set
    openai_config,         \* the keys of the dictionary get_openai_config returns
    token,                 \* the token argument of analyze_repository
    json_output,           \* the json_output argument of analyze_repository
    prs,                   \* the change-sets get_prs_since_date returned
    index,                 \* how many change-sets the loop has taken up
    analysis_results,      \* the list the loop appends to
    outcomes,              \* what each classifier call so far did
    report,                \* the report generated, if any
    failure,               \* why analyze_repository raised, if it did
    args,                  \* the since_date and release_tag arguments
    since_date,            \* the local since_date: <<>> is None, <<d>> a datetime
    repo,                  \* the releases of the repository, as the platform answers
    lookups,               \* the release lookups made so far
    today,                 \* datetime.now()
    search,                \* what the search of get_prs_since_date yields
    clients,               \* the clients analyze_repository has constructed
    events                 \* the requests, limiter passes and reports so far

parseVars == <<content, parsed>>
callVars == <<pr_details, cls, analysis, outstanding>>
limiterVars ==
    <<request_count, last_request_time, rate_limit_per_minute, now, slept, calls>>
sinceVars == <<args, since_date, repo, lookups, today>>
inputVars == <<env, openai_config, token, json_output, sinceVars, search>>
runVars ==
    <<caller, inputVars, prs, index, analysis_results, report, failure, clients>>
vars == <<pc, parseVars, callVars, limiterVars, runVars, outcomes, events>>

\* ------------------------------------------------------------------ bounds

\* Largest number of entries of a docs_impact list of a generated verdict.
MaxEntries == 1

\* The clock when a run starts, in seconds since the epoch.
StartTime == 100

\* The _rate_limit calls of a run of the limiter alone.
MaxCalls == 4

\* The largest rate_limit_per_minute the limiter alone is run with.
MaxRate == 2

\* Change-set numbers are 1..MaxPRs.
MaxPRs == 2

\* The day a run takes place on, as a day number.
Today == 400

\* The longest search result built from every kind of change-set.
MaxSearch == 3

\* ------------------------------------------------------------ text tokens

SP == " "
NL == "\n"
Whitespace == {SP, NL}
Period == "."
\* The code fences: three backquotes with and without the json tag, the
\* backquote written ' here.
FenceJson == "'''json"
Fence == "'''"

\* The text that every parse-failure default carries as its reasoning.
Magic == "Extracted from non-JSON response"

\* JSON string literals as they stand in a text, and the string each denotes.
Unquote ==
    ("\"user_facing\"" :> "user_facing") @@
    ("\"docs_impact\"" :> "docs_impact") @@
    ("\"update_existing\"" :> "update_existing") @@
    ("\"create_new\"" :> "create_new") @@
    ("\"suggested_content\"" :> "suggested_content") @@
    ("\"reasoning\"" :> "reasoning") @@
    ("\"pr_number\"" :> "pr_number") @@
    ("\"docs/api.md\"" :> "docs/api.md") @@
    ("\"docs/new.md\"" :> "docs/new.md") @@
    ("\"Add a section\"" :> "Add a section") @@
    ("\"update documentation\"" :> "update documentation") @@
    ("\"x\"" :> "x") @@
    ("\"false\"" :> "false") @@
    ("\"Extracted from non-JSON response\"" :> Magic)

StrLits == DOMAIN Unquote

Quote(s) == CHOOSE q \in StrLits : Unquote[q] = s

\* str.lower() of one token.
Lower(tok) ==
    CASE tok = "Documentation" -> "documentation"
      [] tok = "See" -> "see"
      [] tok = "Bye" -> "bye"
      [] tok = "\"Add a section\"" -> "\"add a section\""
      [] tok = "\"Extracted from non-JSON response\"" ->
             "\"extracted from non-json response\""
      [] OTHER -> tok

\* The lower-case tokens that have "documentation" as a substring.
HoldsDocumentation == {"documentation", "\"update documentation\""}

\* "documentation" in s.lower()
MentionsDocumentation(s) ==
    \E i \in 1..Len(s) : Lower(s[i]) \in HoldsDocumentation

RECURSIVE Join(_)
\* The text of a token sequence as one string.
Join(s) == IF s = <<>> THEN "" ELSE Head(s) \o Join(Tail(s))

RECURSIVE Strip(_)
\* str.strip(): leading and trailing whitespace removed.
Strip(s) ==
    IF s = <<>> THEN s
    ELSE IF Head(s) \in Whitespace THEN Strip(Tail(s))
    ELSE IF s[Len(s)] \in Whitespace THEN Strip(SubSeq(s, 1, Len(s) - 1))
    ELSE s

\* str.find: the first position >= from whose token is in toks, 0 when none.
Find(s, toks, from) ==
    IF \E i \in from..Len(s) : s[i] \in toks
    THEN CHOOSE i \in from..Len(s) :
             s[i] \in toks /\ \A j \in from..(i - 1) : s[j] \notin toks
    ELSE 0

\* str.rfind: the last position whose token is in toks, 0 when none.
RFind(s, toks) ==
    IF \E i \in 1..Len(s) : s[i] \in toks
    THEN CHOOSE i \in 1..Len(s) :
             s[i] \in toks /\ \A j \in (i + 1)..Len(s) : s[j] \notin toks
    ELSE 0

\* ------------------------------------------------------------ JSON values

JAtom(t, a) == [t |-> t, a |-> a, keys |-> <<>>, items |-> <<>>]
JStr(s) == JAtom("str", s)
JTrue == JAtom("bool", "true")
JFalse == JAtom("bool", "false")
JNull == JAtom("null", "null")
JList(items) == [t |-> "list", a |-> "", keys |-> <<>>, items |-> items]
JObj(keys, items) == [t |-> "obj", a |-> "", keys |-> keys, items |-> items]

\* key in d
HasKey(d, k) == \E i \in 1..Len(d.keys) : d.keys[i] = k

\* d[key], for a key of d
Get(d, k) == d.items[CHOOSE i \in 1..Len(d.keys) : d.keys[i] = k]

\* d[key] = v: a present key keeps its place, a new key goes last.
DictSet(d, k, v) ==
    IF HasKey(d, k)
    THEN JObj(d.keys,
              [i \in 1..Len(d.keys) |-> IF d.keys[i] = k THEN v ELSE d.items[i]])
    ELSE JObj(Append(d.keys, k), Append(d.items, v))

\* The JSON literals other than strings.
AtomVal(tok) ==
    CASE tok = "true" -> JTrue
      [] tok = "false" -> JFalse
      [] tok = "null" -> JNull
      [] tok = "5" -> JAtom("int", "5")
      [] OTHER -> JStr(Unquote[tok])

IsAtom(tok) == tok \in {"true", "false", "null", "5"} \cup StrLits

ParseFail == [ok |-> FALSE, val |-> JNull, next |-> 0]
ParseOk(v, n) == [ok |-> TRUE, val |-> v, next |-> n]

At(t, i, tok) == i <= Len(t) /\ t[i] = tok

RECURSIVE PValue(_, _), PElems(_, _, _), PMembers(_, _, _)

\* One JSON value starting at position i of the whitespace-free text t.
PValue(t, i) ==
    IF i > Len(t) THEN ParseFail
    ELSE IF IsAtom(t[i]) THEN ParseOk(AtomVal(t[i]), i + 1)
    ELSE IF t[i] = "[" THEN
        IF At(t, i + 1, "]") THEN ParseOk(JList(<<>>), i + 2)
        ELSE PElems(t, i + 1, <<>>)
    ELSE IF t[i] = "{" THEN
        IF At(t, i + 1, "}") THEN ParseOk(JObj(<<>>, <<>>), i + 2)
        ELSE PMembers(t, i + 1, JObj(<<>>, <<>>))
    ELSE ParseFail

PElems(t, i, acc) ==
    LET r == PValue(t, i) IN
    IF ~r.ok THEN ParseFail
    ELSE IF At(t, r.next, ",") THEN PElems(t, r.next + 1, Append(acc, r.val))
    ELSE IF At(t, r.next, "]") THEN ParseOk(JList(Append(acc, r.val)), r.next + 1)
    ELSE ParseFail

PMembers(t, i, acc) ==
    IF i + 1 <= Len(t) /\ t[i] \in StrLits /\ t[i + 1] = ":"
    THEN LET r == PValue(t, i + 2)
             d == DictSet(acc, Unquote[t[i]], r.val)
         IN  IF ~r.ok THEN ParseFail
             ELSE IF At(t, r.next, ",") THEN PMembers(t, r.next + 1, d)
             ELSE IF At(t, r.next, "}") THEN ParseOk(d, r.next + 1)
             ELSE ParseFail
    ELSE ParseFail

\* json.loads(s): [ok, val]; ok is FALSE for json.JSONDecodeError.
\* Whitespace between tokens is insignificant; the whole text must be consumed.
JsonLoads(s) ==
    LET t == SelectSeq(s, LAMBDA tok : tok \notin Whitespace)
        r == PValue(t, 1)
    IN  IF r.ok /\ r.next = Len(t) + 1
        THEN [ok |-> TRUE, val |-> r.val]
        ELSE [ok |-> FALSE, val |-> JNull]

\* --------------------------------------- OpenAIAnalyzer._parse_openai_response

\* DefaultResult with the opposite bias.
DefaultResultNotUserFacing ==
    JObj(<<"user_facing", "docs_impact", "reasoning">>,
         <<JFalse,
           JObj(<<"update_existing", "create_new", "suggested_content">>,
                <<JList(<<>>), JList(<<>>), JList(<<>>)>>),
           JStr(Magic)>>)

\* The default result of the four places where every extraction has failed.
DefaultResult ==
    JObj(<<"user_facing", "docs_impact", "reasoning">>,
         <<JTrue,
           JObj(<<"update_existing", "create_new", "suggested_content">>,
                <<JList(<<>>), JList(<<>>), JList(<<>>)>>),
           JStr(Magic)>>)

\* ThirdAttempt with find in the place of rfind: the first "}" ends the text.
ThirdAttemptFirstClose(c) ==
    LET start_idx == Find(c, {"{"}, 1)
        end_idx == Find(c, {"}"}, 1)
    IN  IF start_idx > 0 /\ end_idx > start_idx
        THEN LET r == JsonLoads(SubSeq(c, start_idx, end_idx))
             IN  IF r.ok THEN [tier |-> 3, val |-> r.val]
                 ELSE [tier |-> 4, val |-> DefaultResult]
        ELSE [tier |-> 4, val |-> DefaultResult]

\* "Third attempt" and "Fourth attempt" (the same code twice): the text from
\* the first "{" to the last "}".  tier 4 is the default result.
ThirdAttempt(c) ==
    LET start_idx == Find(c, {"{"}, 1)
        end_idx == RFind(c, {"}"})
    IN  IF start_idx > 0 /\ end_idx > start_idx
        THEN LET r == JsonLoads(SubSeq(c, start_idx, end_idx))
             IN  IF r.ok THEN [tier |-> 3, val |-> r.val]
                 ELSE [tier |-> 4, val |-> DefaultResult]
        ELSE [tier |-> 4, val |-> DefaultResult]

\* "Second attempt": the text between the json fence and the next fence.
\* start is the position after the tag; find("```", start) also meets the
\* opening of a later json fence.  start > 6 holds whenever the tag is found.
SecondAttempt(c) ==
    LET start == Find(c, {FenceJson}, 1) + 1
        end == Find(c, {FenceJson, Fence}, start)
    IN  IF end > start
        THEN LET r == JsonLoads(Strip(SubSeq(c, start, end - 1)))
             IN  IF r.ok THEN [tier |-> 2, val |-> r.val] ELSE ThirdAttempt(c)
        ELSE ThirdAttempt(c)

\* Lines 110-192: the value bound to result, and the attempt that bound it.
Extract(c) ==
    LET r == JsonLoads(c)
    IN  IF r.ok THEN [tier |-> 1, val |-> r.val]
        ELSE IF Find(c, {FenceJson}, 1) > 0 THEN SecondAttempt(c)
        ELSE ThirdAttempt(c)

RECURSIVE SplitFrom(_, _, _, _)
SplitFrom(s, i, cur, acc) ==
    IF i > Len(s) THEN Append(acc, cur)
    ELSE IF s[i] = Period /\ At(s, i + 1, SP)
         THEN SplitFrom(s, i + 2, <<>>, Append(acc, cur))
         ELSE SplitFrom(s, i + 1, Append(cur, s[i]), acc)

\* s.split(". ")
SplitSentences(s) == SplitFrom(s, 1, <<>>, <<>>)

\* What a call did: returned val, or raised the exception exc with str(e) = msg.
Returned(v) == [raised |-> FALSE, exc |-> "", msg |-> "", val |-> v]
Raised(e, m) == [raised |-> TRUE, exc |-> e, msg |-> m, val |-> JNull]

\* type(v).__name__
PyType(v) ==
    CASE v.t = "null" -> "NoneType"
      [] v.t = "obj" -> "dict"
      [] OTHER -> v.t

\* "reasoning" in result and result["reasoning"] == Magic, for any JSON value:
\* "in" raises on a number, a boolean and None; on a string it is a substring
\* test and on a list a membership test, and the subscript then raises.
IsDefaultTest(result) ==
    CASE result.t \in {"int", "bool", "null"} ->
             Raised("TypeError",
                    "argument of type '" \o PyType(result) \o "' is not iterable")
      [] result.t = "str" ->
             IF result.a = "reasoning"
             THEN Raised("TypeError", "string indices must be integers")
             ELSE Returned(JFalse)
      [] result.t = "list" ->
             IF \E i \in 1..Len(result.items) : result.items[i] = JStr("reasoning")
             THEN Raised("TypeError",
                         "list indices must be integers or slices, not str")
             ELSE Returned(JFalse)
      [] OTHER ->
             IF HasKey(result, "reasoning") /\ Get(result, "reasoning") = JStr(Magic)
             THEN Returned(JTrue) ELSE Returned(JFalse)

\* AppendSentence without the strip() of the sentence.
AppendSentenceUnstripped(result, sentence) ==
    IF ~HasKey(result, "docs_impact") THEN Raised("KeyError", "'docs_impact'")
    ELSE LET di == Get(result, "docs_impact")
         IN  IF di.t # "obj"
             THEN Raised("TypeError",
                         "'" \o PyType(di) \o "' is no dict to hold suggested_content")
             ELSE LET di2 == IF HasKey(di, "suggested_content") THEN di
                             ELSE DictSet(di, "suggested_content", JList(<<>>))
                      sc == Get(di2, "suggested_content")
                  IN  IF sc.t # "list"
                      THEN Raised("AttributeError",
                               "'" \o PyType(sc) \o "' object has no attribute 'append'")
                      ELSE Returned(DictSet(result, "docs_impact",
                               DictSet(di2, "suggested_content",
                                   JList(Append(sc.items,
                                                JStr(Join(sentence)))))))

\* Lines 202-204 for one sentence: result["docs_impact"]["suggested_content"]
\* is created when absent and the stripped sentence appended to it.
AppendSentence(result, sentence) ==
    IF ~HasKey(result, "docs_impact") THEN Raised("KeyError", "'docs_impact'")
    ELSE LET di == Get(result, "docs_impact")
         IN  IF di.t # "obj"
             THEN Raised("TypeError",
                         "'" \o PyType(di) \o "' is no dict to hold suggested_content")
             ELSE LET di2 == IF HasKey(di, "suggested_content") THEN di
                             ELSE DictSet(di, "suggested_content", JList(<<>>))
                      sc == Get(di2, "suggested_content")
                  IN  IF sc.t # "list"
                      THEN Raised("AttributeError",
                               "'" \o PyType(sc) \o "' object has no attribute 'append'")
                      ELSE Returned(DictSet(result, "docs_impact",
                               DictSet(di2, "suggested_content",
                                   JList(Append(sc.items,
                                                JStr(Join(Strip(sentence))))))))

RECURSIVE SalvageFrom(_, _, _)
\* Lines 200-204: the loop over the sentences, from sentence i on.
SalvageFrom(out, sentences, i) ==
    IF out.raised \/ i > Len(sentences) THEN out
    ELSE IF MentionsDocumentation(sentences[i])
         THEN SalvageFrom(AppendSentence(out.val, sentences[i]), sentences, i + 1)
         ELSE SalvageFrom(out, sentences, i + 1)

\* Lines 194-206.
Salvage(result, c) ==
    LET test == IsDefaultTest(result)
    IN  IF test.raised THEN test
        ELSE IF test.val = JTrue /\ MentionsDocumentation(c)
             THEN SalvageFrom(Returned(result), SplitSentences(c), 1)
             ELSE Returned(result)

\* _parse_openai_response(content): what it returns or raises, with the
\* attempt that bound result and the value it bound.
parse_openai_response(text) ==
    LET c == Strip(text)
        x == Extract(c)
        out == Salvage(x.val, c)
    IN  [raised |-> out.raised, exc |-> out.exc, msg |-> out.msg, val |-> out.val,
         tier |-> x.tier, extracted |-> x.val]

NoParse ==
    [raised |-> FALSE, exc |-> "", msg |-> "", val |-> JNull,
     tier |-> 0, extracted |-> JNull]

\* ------------------------------------------------ OpenAIAnalyzer._rate_limit

\* The window of the limiter, in seconds (the literal 60 of lines 60, 61, 67).
Window == 60

\* rate_limit_per_minute as __init__ sets it.
DefaultRate == 20

\* RateLimit that lets the call through until the count exceeds the limit.
RateLimitOneMore(count, last, limit, current_time, lag) ==
    LET time_since_last_request == current_time - last
        blocks == time_since_last_request < Window /\ count > limit
        wait_time == Window - time_since_last_request
        count1 == IF blocks THEN 0
                  ELSE IF time_since_last_request >= Window THEN 0
                  ELSE count
        spent == (IF blocks THEN wait_time ELSE 0) + lag
    IN  [request_count |-> count1 + 1,
         last_request_time |-> current_time + spent,
         slept |-> IF blocks THEN spent ELSE 0,
         wait |-> IF blocks THEN wait_time ELSE 0,
         reset |-> blocks \/ time_since_last_request >= Window]

\* RateLimit that keeps the count after it has waited.
RateLimitKeepsCount(count, last, limit, current_time, lag) ==
    LET time_since_last_request == current_time - last
        blocks == time_since_last_request < Window /\ count >= limit
        wait_time == Window - time_since_last_request
        count1 == IF time_since_last_request >= Window THEN 0 ELSE count
        spent == (IF blocks THEN wait_time ELSE 0) + lag
    IN  [request_count |-> count1 + 1,
         last_request_time |-> current_time + spent,
         slept |-> IF blocks THEN spent ELSE 0,
         wait |-> IF blocks THEN wait_time ELSE 0,
         reset |-> blocks \/ time_since_last_request >= Window]

\* _rate_limit() called when time.time() is current_time; lag is the time the
\* call takes beyond the wait it asks for (time.sleep sleeps at least that
\* long, and line 71 reads the clock again).
RateLimit(count, last, limit, current_time, lag) ==
    LET time_since_last_request == current_time - last
        blocks == time_since_last_request < Window /\ count >= limit
        wait_time == Window - time_since_last_request
        count1 == IF blocks THEN 0
                  ELSE IF time_since_last_request >= Window THEN 0
                  ELSE count
        spent == (IF blocks THEN wait_time ELSE 0) + lag
    IN  [request_count |-> count1 + 1,
         last_request_time |-> current_time + spent,
         slept |-> IF blocks THEN spent ELSE 0,
         wait |-> IF blocks THEN wait_time ELSE 0,
         reset |-> blocks \/ time_since_last_request >= Window]

\* Seconds a _rate_limit call may take beyond its wait.
Lags == {0, 1}

\* The limiter of a new OpenAIAnalyzer (lines 48-50); the clock is anywhere
\* past the epoch.
FreshLimiter ==
    /\ request_count = 0
    /\ last_request_time = 0
    /\ rate_limit_per_minute = DefaultRate
    /\ now = StartTime
    /\ slept = 0
    /\ calls = <<>>

\* The effect of one _rate_limit call on the analyzer and on the clock.
LimiterCalled(lag) ==
    LET r == RateLimit(request_count, last_request_time,
                       rate_limit_per_minute, now, lag)
    IN  /\ request_count' = r.request_count
        /\ last_request_time' = r.last_request_time
        /\ now' = r.last_request_time
        /\ slept' = r.slept
        /\ calls' = Append(calls, [at |-> now, ret |-> r.last_request_time,
                                   slept |-> r.slept, wait |-> r.wait,
                                   reset |-> r.reset,
                                   count |-> request_count])
        /\ UNCHANGED rate_limit_per_minute

\* ---------------------------------------------------- OpenAIAnalyzer.analyze_pr

PrNumber(n) == JAtom("int", ToString(n))
PrTitle(n) == JStr("Change " \o ToString(n))
PrUrl(n) == JStr("https://github.com/owner/repo/pull/" \o ToString(n))

\* The dictionary get_pr_details builds (github_client.py 240-249); diff is
\* the text of the diff.  A caller of analyze_pr may pass any dictionary:
\* HandMade has None for its diff.
Detail(n) ==
    [number |-> PrNumber(n), title |-> PrTitle(n), url |-> PrUrl(n),
     diff |-> JStr("mock diff")]

HandMade(n) == [Detail(n) EXCEPT !.diff = JNull]

NoDetail == [number |-> JNull, title |-> JNull, url |-> JNull, diff |-> JNull]

\* Lines 221-268: the prompt is built outside the try block; the slice
\* pr_details['diff'][:10000] raises on a diff that is no sequence.
BuildPrompt(d) ==
    IF d.diff.t \in {"str", "list"} THEN Returned(JNull)
    ELSE Raised("TypeError", "'" \o PyType(d.diff) \o "' object is not subscriptable")

\* AttachMetadata that leaves a pr_number the response brought along.
AttachMetadataKeepsOwn(result, d) ==
    IF result.t = "obj"
    THEN Returned(DictSet(DictSet(IF HasKey(result, "pr_number") THEN result
                                  ELSE DictSet(result, "pr_number", d.number),
                                  "pr_title", d.title),
                          "pr_url", d.url))
    ELSE IF result.t = "list"
    THEN Raised("TypeError", "list indices must be integers or slices, not str")
    ELSE Raised("TypeError",
                "'" \o PyType(result) \o "' object does not support item assignment")

\* Lines 277-280: result["pr_number"] = ... and the two others.
AttachMetadata(result, d) ==
    IF result.t = "obj"
    THEN Returned(DictSet(DictSet(DictSet(result, "pr_number", d.number),
                                  "pr_title", d.title),
                          "pr_url", d.url))
    ELSE IF result.t = "list"
    THEN Raised("TypeError", "list indices must be integers or slices, not str")
    ELSE Raised("TypeError",
                "'" \o PyType(result) \o "' object does not support item assignment")

\* ErrorResult without the "Error: " prefix of the reasoning.
ErrorResultBareReasoning(d, m) ==
    JObj(<<"pr_number", "pr_title", "pr_url", "user_facing", "docs_impact",
           "reasoning", "error">>,
         <<d.number, d.title, d.url, JFalse,
           JObj(<<"update_existing", "create_new", "suggested_content">>,
                <<JList(<<>>), JList(<<>>), JList(<<>>)>>),
           JStr(m), JStr(m)>>)

\* Lines 286-298: the dictionary returned from the except block.
ErrorResult(d, m) ==
    JObj(<<"pr_number", "pr_title", "pr_url", "user_facing", "docs_impact",
           "reasoning", "error">>,
         <<d.number, d.title, d.url, JFalse,
           JObj(<<"update_existing", "create_new", "suggested_content">>,
                <<JList(<<>>), JList(<<>>), JList(<<>>)>>),
           JStr("Error: " \o m), JStr(m)>>)

\* TryBlock without the handler for the exception of the classifier call.
TryBlockNoHandler(d, c) ==
    IF c.raised THEN Raised("Exception", c.msg)
    ELSE LET p == parse_openai_response(c.text)
         IN  IF p.raised THEN Returned(ErrorResult(d, p.msg))
             ELSE LET a == AttachMetadata(p.val, d)
                  IN  IF a.raised THEN Returned(ErrorResult(d, a.msg)) ELSE a

\* Lines 270-298: the try block and its handler, given what the classifier
\* call did (c.raised with c.msg, or c.text returned).
TryBlock(d, c) ==
    IF c.raised THEN Returned(ErrorResult(d, c.msg))
    ELSE LET p == parse_openai_response(c.text)
         IN  IF p.raised THEN Returned(ErrorResult(d, p.msg))
             ELSE LET a == AttachMetadata(p.val, d)
                  IN  IF a.raised THEN Returned(ErrorResult(d, a.msg)) ELSE a

ClsReturns(text) == [raised |-> FALSE, msg |-> "", text |-> text]
ClsRaises(m) == [raised |-> TRUE, msg |-> m, text |-> <<>>]
NoCls == ClsReturns(<<>>)

IdleCall ==
    /\ pr_details = NoDetail
    /\ cls = NoCls
    /\ analysis = Returned(JNull)
    /\ outstanding = 0
    /\ outcomes = <<>>

NoReport ==
    [format |-> "none", total_prs |-> 0, user_facing_prs |-> 0,
     no_changes |-> FALSE, complete |-> FALSE, update_existing |-> <<>>,
     create_new |-> <<>>, suggestions |-> <<>>, details |-> <<>>,
     fields |-> {}, analysis_results |-> <<>>]

\* The keys get_openai_config returns (config.py 54-59), and a provider that
\* returns every key OpenAIAnalyzer.__init__ reads (lines 36-45).
ShippedKeys == {"api_key", "model", "max_tokens", "temperature"}
ConstructorKeys == ShippedKeys \cup {"base_url", "extra_instructions"}

\* A datetime: the calendar date as a day number, the time of day in seconds.
DateTime(d, t) == [date |-> d, time |-> t]

\* The repository as the release lookups see it: tagged is what
\* get_release(tag) finds (<<>> when it raises), releases the creation
\* times get_releases lists, the latest first, and listing_raises whether
\* that listing raises.
Repo(tagged, releases, raises) ==
    [tagged |-> tagged, releases |-> releases, listing_raises |-> raises]

\* No boundary is being resolved and no change-sets are being listed.
NoRetrieval ==
    /\ args = [since_date |-> <<>>, release_tag |-> <<>>]
    /\ since_date = <<>>
    /\ repo = Repo(<<>>, <<>>, FALSE)
    /\ lookups = <<>>
    /\ today = DateTime(Today, 0)
    /\ search = <<>>

\* No analyze_repository is under way: the analyzer was built on its own.
NoRun ==
    /\ caller = "direct"
    /\ env = [GITHUB_TOKEN |-> <<"ghp_token">>, OPENAI_API_KEY |-> <<"sk-key">>]
    /\ openai_config = ConstructorKeys
    /\ token = FALSE
    /\ json_output = FALSE
    /\ prs = <<>>
    /\ index = 0
    /\ analysis_results = <<>>
    /\ report = NoReport
    /\ failure = "none"
    /\ clients = {}
    /\ events = <<>>

\* ------------------------------------------------------- response texts

RECURSIVE RenderItems(_, _), RenderMembers(_, _)

\* The JSON text of a value, as json.dumps writes it with compact separators.
Render(v) ==
    CASE v.t = "str" -> <<Quote(v.a)>>
      [] v.t = "list" -> <<"[">> \o RenderItems(v.items, 1) \o <<"]">>
      [] v.t = "obj" -> <<"{">> \o RenderMembers(v, 1) \o <<"}">>
      [] OTHER -> <<v.a>>

RenderItems(items, i) ==
    IF i > Len(items) THEN <<>>
    ELSE Render(items[i]) \o (IF i < Len(items) THEN <<",">> ELSE <<>>)
         \o RenderItems(items, i + 1)

RenderMembers(d, i) ==
    IF i > Len(d.keys) THEN <<>>
    ELSE <<Quote(d.keys[i]), ":">> \o Render(d.items[i])
         \o (IF i < Len(d.keys) THEN <<",">> ELSE <<>>)
         \o RenderMembers(d, i + 1)

\* The string entries a generated list is drawn from, in this order.
DocPool == <<"docs/api.md", "docs/new.md", "x">>
TextPool == <<"Add a section", "update documentation", "x">>

FirstOf(pool, n) == [i \in 1..n |-> JStr(pool[i])]

DocsImpact(ue, cn, sc) ==
    JObj(<<"update_existing", "create_new", "suggested_content">>,
         <<JList(ue), JList(cn), JList(sc)>>)

Verdict(uf, di, r) ==
    JObj(<<"user_facing", "docs_impact", "reasoning">>, <<uf, di, JStr(r)>>)

\* The objects of the shape the system prompt asks for (schemas.AnalysisResult).
ValidVerdicts ==
    { Verdict(uf, DocsImpact(FirstOf(DocPool, n), cn, FirstOf(TextPool, m)), r) :
        uf \in {JTrue, JFalse}, n \in 0..MaxEntries,
        cn \in {<<>>, <<JStr("docs/new.md")>>}, m \in 0..MaxEntries,
        r \in {"x", Magic} }

EmptyImpact == DocsImpact(<<>>, <<>>, <<>>)

\* Valid JSON of another shape.
OtherShapes ==
    { JAtom("int", "5"), JNull, JTrue, JStr("x"), JStr("reasoning"),
      JList(<<>>), JList(<<JStr("reasoning")>>), JList(<<JStr("x")>>),
      JObj(<<>>, <<>>),
      JObj(<<"user_facing">>, <<JTrue>>),
      JObj(<<"reasoning">>, <<JStr(Magic)>>),
      Verdict(JTrue, JNull, "x"),
      Verdict(JTrue, JNull, Magic),
      Verdict(JTrue, JList(<<>>), "x"),
      Verdict(JStr("x"), EmptyImpact, "x"),
      Verdict(JTrue, JObj(<<>>, <<>>), Magic),
      Verdict(JTrue, JObj(<<"suggested_content">>, <<JNull>>), Magic),
      Verdict(JTrue, JObj(<<"update_existing">>, <<JNull>>), "x"),
      Verdict(JTrue, DocsImpact(<<JAtom("int", "5")>>, <<>>, <<>>), "x"),
      DictSet(Verdict(JTrue, EmptyImpact, "x"), "pr_number", JAtom("int", "5")) }

\* Texts that are no JSON at all.
NonJson ==
    { <<>>, <<"See">>, <<"documentation">>,
      <<"Documentation", Period, NL, "See">>,
      <<"{", "\"user_facing\"">>,
      <<"{", "See", "}">> }

Cores == {Render(v) : v \in ValidVerdicts \cup OtherShapes} \cup NonJson

\* What stands before and after the core of a response.
Prefixes ==
    { <<>>, <<SP>>, <<"See", SP>>,
      <<"See", SP, "documentation", Period, SP>>,
      <<"See", NL, FenceJson, NL>>,
      <<"Documentation", Period, SP, FenceJson, NL>>,
      <<FenceJson>>,
      <<"{", SP>>,
      <<FenceJson, NL, "See", NL, Fence, NL>> }

Suffixes ==
    { <<>>, <<NL>>, <<SP, "Bye">>,
      <<NL, Fence>>,
      <<NL, Fence, NL, "Bye">>,
      <<NL, Fence, NL, "Bye", SP, "documentation", Period, SP>>,
      <<Period, SP, "Bye">>,
      <<Period, SP>>,
      <<SP, "}">> }

Texts == {p \o c \o s : p \in Prefixes, c \in Cores, s \in Suffixes}

\* ------------------------------------------------ the parser called alone

InitParse ==
    /\ pc = "parse"
    /\ content \in Texts
    /\ parsed = NoParse
    /\ IdleCall
    /\ FreshLimiter
    /\ NoRun
    /\ NoRetrieval

\* One call of _parse_openai_response(content).
ParseResponse ==
    /\ pc = "parse"
    /\ parsed' = parse_openai_response(content)
    /\ pc' = IF parsed'.raised THEN "raised" ELSE "returned"
    /\ UNCHANGED <<content, callVars, limiterVars, runVars, outcomes, events>>

NextParse == ParseResponse

SpecParse == InitParse /\ [][NextParse]_vars

\* -------------------------------------------------- analyze_pr called alone

\* The responses of the classifier that analyze_pr is tried on.
AnalyzeTexts ==
    {p \o c \o s :
        p \in {<<>>, <<"Documentation", Period, SP, FenceJson, NL>>},
        c \in Cores,
        s \in {<<>>, <<NL, Fence>>, <<Period, SP>>}}

\* The messages of the exceptions of the classifier call.
Messages == {"API error", "Request timed out."}

ClsOutcomes ==
    {ClsReturns(t) : t \in AnalyzeTexts} \cup {ClsRaises(m) : m \in Messages}

InitAnalyze ==
    /\ pc = "rate_limit"
    /\ content = <<>>
    /\ parsed = NoParse
    /\ pr_details \in {Detail(n) : n \in 1..MaxPRs} \cup {HandMade(1)}
    /\ cls = NoCls
    /\ analysis = Returned(JNull)
    /\ outstanding = 0
    /\ outcomes = <<>>
    /\ FreshLimiter
    /\ NoRun
    /\ NoRetrieval

\* Line 219: await self._rate_limit().
RateLimitStep ==
    /\ pc = "rate_limit"
    /\ \E lag \in Lags : LimiterCalled(lag)
    /\ events' = Append(events, "rate_limit")
    /\ pc' = "prompt"
    /\ UNCHANGED <<parseVars, callVars, runVars, outcomes>>

\* Lines 221-272: the prompt is built and the request issued; an exception
\* of the prompt building leaves analyze_pr.
PromptStep ==
    /\ pc = "prompt"
    /\ LET b == BuildPrompt(pr_details)
       IN  IF b.raised
           THEN /\ analysis' = b
                /\ pc' = "raised"
                /\ UNCHANGED <<outstanding, events>>
           ELSE /\ outstanding' = outstanding + 1
                /\ events' = Append(events, "classify")
                /\ pc' = "request"
                /\ UNCHANGED analysis
    /\ UNCHANGED <<parseVars, pr_details, cls, limiterVars, runVars, outcomes>>

\* Lines 272-298: the classifier call ends as c says; the response is parsed,
\* the metadata attached, and every exception turned into the error result.
ClassifierStep(c) ==
    /\ pc = "request"
    /\ cls' = c
    /\ outstanding' = outstanding - 1
    /\ content' = IF c.raised THEN content ELSE c.text
    /\ parsed' = IF c.raised THEN parsed ELSE parse_openai_response(c.text)
    /\ analysis' = TryBlock(pr_details, c)
    /\ outcomes' = Append(outcomes, c)
    /\ pc' = IF analysis'.raised THEN "raised" ELSE "returned"
    /\ UNCHANGED <<pr_details, limiterVars, runVars, events>>

NextAnalyze ==
    \/ RateLimitStep
    \/ PromptStep
    \/ \E c \in ClsOutcomes : ClassifierStep(c)

SpecAnalyze == InitAnalyze /\ [][NextAnalyze]_vars

\* ------------------------------------------------ the limiter called alone

\* Seconds that pass between two _rate_limit calls.
Gaps == {1, 59, 60}

InitRate ==
    /\ pc = "idle"
    /\ content = <<>>
    /\ parsed = NoParse
    /\ IdleCall
    /\ request_count = 0
    /\ last_request_time = 0
    /\ rate_limit_per_minute \in 1..MaxRate
    /\ now = StartTime
    /\ slept = 0
    /\ calls = <<>>
    /\ NoRun
    /\ NoRetrieval

\* Time passes before the next call.
Elapse(d) ==
    /\ pc = "idle"
    /\ now' = now + d
    /\ pc' = "waited"
    /\ UNCHANGED <<parseVars, callVars, request_count, last_request_time,
                   rate_limit_per_minute, slept, calls, runVars, outcomes,
                   events>>

\* await self._rate_limit()
LimitCall ==
    /\ Len(calls) < MaxCalls
    /\ \E lag \in Lags : LimiterCalled(lag)
    /\ pc' = "idle"
    /\ UNCHANGED <<parseVars, callVars, runVars, outcomes, events>>

NextRate ==
    \/ \E d \in Gaps : Elapse(d)
    \/ LimitCall

SpecRate == InitRate /\ [][NextRate]_vars

\* ------------------------------------------------------- ReportGenerator

\* bool(v) of Python.
Truthy(v) ==
    CASE v.t = "bool" -> v.a = "true"
      [] v.t = "null" -> FALSE
      [] v.t = "str" -> v.a # ""
      [] v.t = "int" -> v.a # "0"
      [] v.t = "list" -> Len(v.items) > 0
      [] OTHER -> Len(v.keys) > 0

\* UserFacing that keeps every item.
UserFacingAll(results) == SelectSeq(results, LAMBDA pr : TRUE)

\* Lines 48 and 187: [pr for pr in analysis_results if pr.get("user_facing", False)].
UserFacing(results) ==
    SelectSeq(results,
              LAMBDA pr : HasKey(pr, "user_facing") /\ Truthy(Get(pr, "user_facing")))

\* pr.get("docs_impact", {}) of lines 86 and 132.
ImpactOf(pr) ==
    IF HasKey(pr, "docs_impact") THEN Get(pr, "docs_impact") ELSE JObj(<<>>, <<>>)

\* docs_impact.get(k, []) of lines 88, 91 and 94.
ListOf(di, k) == IF HasKey(di, k) THEN Get(di, k) ELSE JList(<<>>)

\* What a for loop over v goes through: the items of a list, the keys of a
\* dictionary; a string gives its characters, strings all of them, and one
\* string stands for them here.
Iterable(v) == v.t \in {"list", "obj", "str"}
Elements(v) ==
    CASE v.t = "list" -> {v.items[n] : n \in 1..Len(v.items)}
      [] v.t = "obj" -> {JStr(v.keys[n]) : n \in 1..Len(v.keys)}
      [] v.t = "str" -> {JStr(v.a)}
      [] OTHER -> {}

ListKeys == <<"update_existing", "create_new", "suggested_content">>

\* Lines 86-98 for one item: .get on a docs_impact that is no dictionary is
\* an AttributeError, a for loop over None or a number a TypeError, and
\* set.add of a list or a dictionary a TypeError.
CollectRaises(pr) ==
    LET di == ImpactOf(pr)
    IN  \/ di.t # "obj"
        \/ \E n \in 1..3 : ~Iterable(ListOf(di, ListKeys[n]))
        \/ \E n \in 1..2 : \E e \in Elements(ListOf(di, ListKeys[n])) :
                e.t \in {"list", "obj"}

\* Lines 88-92: the set all_updates[k] after the loop.
Collected(ufs, k) ==
    UNION {Elements(ListOf(ImpactOf(ufs[n]), k)) : n \in 1..Len(ufs)}

\* Lines 103 and 110: sorted() compares the entries; a string, a number and
\* None do not compare with one another.
SortClass(e) == IF e.t \in {"int", "bool"} THEN "number" ELSE e.t
SortedRaises(entries) == Cardinality({SortClass(e) : e \in entries}) > 1

\* The strings of the model in the order str.__lt__ puts them, by code
\* point: the capitals before the small letters.
CodePointOrder ==
    <<"Add a section", "Extracted from non-JSON response", "docs/api.md",
      "docs/new.md", "false", "update documentation", "x">>

\* Where a string stands in that order.
Rank(e) == CHOOSE n \in 1..Len(CodePointOrder) : CodePointOrder[n] = e.a

\* sorted(entries) of lines 103 and 110, entries of one class.
Sorted(entries) ==
    IF Cardinality(entries) <= 1
    THEN [n \in 1..Cardinality(entries) |-> CHOOSE e \in entries : TRUE]
    ELSE [n \in 1..Cardinality(entries) |->
            CHOOSE e \in entries :
                Cardinality({f \in entries : Rank(f) < Rank(e)}) = n - 1]

\* What a for loop over v goes through, in the order it does.
ItemsOf(v) ==
    CASE v.t = "list" -> v.items
      [] v.t = "obj" -> [n \in 1..Len(v.keys) |-> JStr(v.keys[n])]
      [] v.t = "str" -> <<JStr(v.a)>>
      [] OTHER -> <<>>

\* pr.get(k) of lines 96 and 125.
GetOrNone(pr, k) == IF HasKey(pr, k) THEN Get(pr, k) ELSE JNull

\* Lines 94-98: all_updates["suggested_content"] after the items from the
\* n-th on have been gone through.
RECURSIVE Suggestions(_, _)
Suggestions(ufs, n) ==
    IF n > Len(ufs) THEN <<>>
    ELSE LET own == ItemsOf(ListOf(ImpactOf(ufs[n]), "suggested_content"))
         IN  [m \in 1..Len(own) |->
                 [pr |-> GetOrNone(ufs[n], "pr_number"), content |-> own[m]]]
             \o Suggestions(ufs, n + 1)

\* Lines 134-150: the entries written under one heading of a detail block;
\* an empty list writes no heading.
OwnList(pr, k) ==
    LET l == ListOf(ImpactOf(pr), k)
    IN  IF Truthy(l) THEN ItemsOf(l) ELSE <<>>

\* Lines 124-150: the detail block of one item.
DetailBlock(pr) ==
    [pr_number |-> GetOrNone(pr, "pr_number"),
     update_existing |-> OwnList(pr, "update_existing"),
     create_new |-> OwnList(pr, "create_new"),
     suggested_content |-> OwnList(pr, "suggested_content")]

\* generate_report, lines 48-153: the report written, or the exception that
\* leaves the function and the part of the file written before it.
generate_report(results) ==
    LET ufs == UserFacing(results)
        header == [format |-> "markdown", total_prs |-> Len(results),
                   user_facing_prs |-> Len(ufs), no_changes |-> Len(ufs) = 0,
                   complete |-> TRUE, update_existing |-> <<>>,
                   create_new |-> <<>>, suggestions |-> <<>>,
                   details |-> <<>>, fields |-> {},
                   analysis_results |-> ufs]
        broken == [header EXCEPT !.complete = FALSE]
        full == [header EXCEPT
                    !.update_existing = Sorted(Collected(ufs, "update_existing")),
                    !.create_new = Sorted(Collected(ufs, "create_new")),
                    !.suggestions = Suggestions(ufs, 1),
                    !.details = [n \in 1..Len(ufs) |-> DetailBlock(ufs[n])]]
    IN  IF Len(ufs) = 0 THEN [Returned(JNull) EXCEPT !.val = header]
        ELSE IF \E n \in 1..Len(ufs) : CollectRaises(ufs[n])
        THEN LET first == CHOOSE n \in 1..Len(ufs) :
                            /\ CollectRaises(ufs[n])
                            /\ \A m \in 1..(n - 1) : ~CollectRaises(ufs[m])
             IN  [Raised(IF ImpactOf(ufs[first]).t # "obj" THEN "AttributeError"
                         ELSE "TypeError", "") EXCEPT !.val = broken]
        ELSE IF \/ SortedRaises(Collected(ufs, "update_existing"))
                \/ SortedRaises(Collected(ufs, "create_new"))
        THEN [Raised("TypeError", "") EXCEPT !.val = broken]
        ELSE [Returned(JNull) EXCEPT !.val = full]

\* The keys of the dictionary of lines 182-189.
ReportKeys ==
    {"repository", "generated_at", "since_date", "total_prs",
     "user_facing_prs", "analysis_results"}

\* generate_json_report that writes the user-facing items only.
generate_json_report_user_facing(results) ==
    [Returned(JNull) EXCEPT !.val =
        [format |-> "json", total_prs |-> Len(results),
         user_facing_prs |-> Len(UserFacing(results)), no_changes |-> FALSE,
         complete |-> TRUE, update_existing |-> <<>>, create_new |-> <<>>,
         suggestions |-> <<>>, details |-> <<>>, fields |-> ReportKeys,
         analysis_results |-> UserFacing(results)]]

\* generate_json_report, lines 172-195: json.dump writes whatever the
\* results hold.
generate_json_report(results) ==
    [Returned(JNull) EXCEPT !.val =
        [format |-> "json", total_prs |-> Len(results),
         user_facing_prs |-> Len(UserFacing(results)), no_changes |-> FALSE,
         complete |-> TRUE, update_existing |-> <<>>, create_new |-> <<>>,
         suggestions |-> <<>>, details |-> <<>>, fields |-> ReportKeys,
         analysis_results |-> results]]

\* ----------------------------------------------------- analyze_repository

\* What the classifier does for one change-set of a run.
RunOutcomes ==
    { ClsReturns(Render(Verdict(JTrue,
                                DocsImpact(<<JStr("docs/api.md")>>, <<>>,
                                           <<JStr("Add a section")>>), "x"))),
      ClsReturns(Render(Verdict(JFalse, EmptyImpact, "x"))),
      ClsReturns(<<"See", SP, "documentation", Period, SP>>),
      ClsReturns(Render(Verdict(JTrue, JNull, "x"))),
      ClsReturns(Render(Verdict(JTrue,
                                DocsImpact(<<JAtom("int", "5")>>, <<>>, <<>>),
                                "x"))),
      ClsReturns(Render(JList(<<>>))),
      ClsReturns(Render(Verdict(JStr("false"),
                                DocsImpact(<<JStr("docs/new.md")>>, <<>>,
                                           <<JStr("Add a section")>>), "x"))),
      ClsRaises("API error") }

\* The k change-sets get_prs_since_date returns, in the order the search
\* yields them: the highest number first.
PrList(k) == [n \in 1..k |-> k + 1 - n]

\* What os.getenv gives for a variable: <<>> when it is unset, else its
\* value, which may be the empty string.
EnvValues(secret) == {<<>>, <<"">>, <<secret>>}

Init ==
    /\ pc = "validate"
    /\ content = <<>>
    /\ parsed = NoParse
    /\ IdleCall
    /\ FreshLimiter
    /\ caller = "analyze_repository"
    /\ env \in [GITHUB_TOKEN : EnvValues("ghp_token"),
                OPENAI_API_KEY : EnvValues("sk-key")]
    /\ openai_config \in {ShippedKeys, ConstructorKeys}
    /\ token \in BOOLEAN
    /\ json_output \in BOOLEAN
    /\ prs = <<>>
    /\ index = 0
    /\ analysis_results = <<>>
    /\ report = NoReport
    /\ failure = "none"
    /\ clients = {}
    /\ events = <<>>
    /\ NoRetrieval

\* Fails that still has the report written.
FailsWithReport(why) ==
    /\ pc' = "generate"
    /\ failure' = why

\* analyze_repository raises: nothing after this point runs.
Fails(why) ==
    /\ pc' = "failed"
    /\ failure' = why

\* validate_config that takes an empty value for a credential.
validate_config_unset_only(e) ==
    {k \in {"GITHUB_TOKEN", "OPENAI_API_KEY"} : e[k] = <<>>}

\* validate_config, config.py 34-45: the keys that are in error.
validate_config(e) ==
    {k \in {"GITHUB_TOKEN", "OPENAI_API_KEY"} : e[k] = <<>> \/ e[k] = <<"">>}

\* cli.py 54-58.
ValidateConfig ==
    /\ pc = "validate"
    /\ IF validate_config(env) = {}
       THEN pc' = "construct" /\ UNCHANGED failure
       ELSE Fails("configuration")
    /\ UNCHANGED <<parseVars, callVars, limiterVars, outcomes, caller,
                   inputVars, prs, index, analysis_results, report, clients,
                   events>>

\* cli.py 61-67: the clients are built in turn; OpenAIAnalyzer.__init__
\* raises KeyError at the first key its configuration lacks.
Construct ==
    /\ pc = "construct"
    /\ IF ConstructorKeys \subseteq openai_config
       THEN /\ clients' = {"GitHubClient", "OpenAIAnalyzer", "ReportGenerator"}
            /\ pc' = "get_repository"
            /\ UNCHANGED failure
       ELSE /\ clients' = {"GitHubClient"}
            /\ Fails("construction")
    /\ UNCHANGED <<parseVars, callVars, limiterVars, outcomes, caller,
                   inputVars, prs, index, analysis_results, report, events>>

\* How the retrieval of the change-sets may end: both requests answered,
\* or one of them raising.
ListOutcomes == {"ok", "get_repository raises", "search raises"}

\* ListPRs that raises when no change-set comes back.
ListPRsEmptyAborts(outcome, k) ==
    /\ pc = "get_repository"
    /\ IF outcome # "ok"
       THEN /\ Fails("retrieval")
            /\ events' = events \o
                    (IF outcome = "get_repository raises"
                     THEN <<"get_repository">>
                     ELSE <<"get_repository", "search">>)
            /\ UNCHANGED <<prs, report>>
       ELSE /\ prs' = PrList(k)
            /\ IF k = 0
               THEN /\ events' = events \o <<"get_repository", "search">>
                    /\ pc' = "failed"
                    /\ UNCHANGED report
               ELSE /\ events' = events \o <<"get_repository", "search">>
                    /\ pc' = "get_pr_details"
                    /\ UNCHANGED report
            /\ UNCHANGED failure
    /\ UNCHANGED <<parseVars, callVars, limiterVars, outcomes, caller,
                   inputVars, index, analysis_results, clients>>

\* cli.py 71-99: the repository, the boundary and the change-sets are
\* retrieved; k change-sets come back when the platform answers.
ListPRs(outcome, k) ==
    /\ pc = "get_repository"
    /\ IF outcome # "ok"
       THEN /\ Fails("retrieval")
            /\ events' = events \o
                    (IF outcome = "get_repository raises"
                     THEN <<"get_repository">>
                     ELSE <<"get_repository", "search">>)
            /\ UNCHANGED <<prs, report>>
       ELSE /\ prs' = PrList(k)
            /\ IF k = 0
               THEN /\ report' = generate_report(<<>>).val
                    /\ events' = events \o
                            <<"get_repository", "search", "generate_report">>
                    /\ pc' = "done"
               ELSE /\ events' = events \o <<"get_repository", "search">>
                    /\ pc' = "get_pr_details"
                    /\ UNCHANGED report
            /\ UNCHANGED failure
    /\ UNCHANGED <<parseVars, callVars, limiterVars, outcomes, caller,
                   inputVars, index, analysis_results, clients>>

\* GetPrDetails that goes through the change-sets from the last one.
GetPrDetailsFromEnd(ok) ==
    /\ pc = "get_pr_details"
    /\ events' = Append(events, "get_pr_details")
    /\ IF ~ok THEN Fails("retrieval") /\ UNCHANGED <<index, pr_details>>
       ELSE /\ index' = index + 1
            /\ pr_details' = Detail(prs[Len(prs) - index])
            /\ pc' = "rate_limit"
            /\ UNCHANGED failure
    /\ UNCHANGED <<parseVars, cls, analysis, outstanding, limiterVars,
                   outcomes, caller, inputVars, prs, analysis_results, report,
                   clients>>

\* cli.py 105-108: the loop takes up the next change-set and fetches its
\* details; analyze_pr is entered.
GetPrDetails(ok) ==
    /\ pc = "get_pr_details"
    /\ events' = Append(events, "get_pr_details")
    /\ IF ~ok THEN Fails("retrieval") /\ UNCHANGED <<index, pr_details>>
       ELSE /\ index' = index + 1
            /\ pr_details' = Detail(prs[index + 1])
            /\ pc' = "rate_limit"
            /\ UNCHANGED failure
    /\ UNCHANGED <<parseVars, cls, analysis, outstanding, limiterVars,
                   outcomes, caller, inputVars, prs, analysis_results, report,
                   clients>>

\* cli.py 108-109: what analyze_pr returned is appended; an exception of
\* analyze_pr leaves analyze_repository.
AppendResult ==
    /\ caller = "analyze_repository"
    /\ pc \in {"returned", "raised"}
    /\ IF analysis.raised
       THEN Fails("analysis") /\ UNCHANGED <<analysis_results, events>>
       ELSE /\ analysis_results' = Append(analysis_results, analysis.val)
            /\ events' = Append(events, "append")
            /\ pc' = IF index < Len(prs) THEN "get_pr_details" ELSE "generate"
            /\ UNCHANGED failure
    /\ UNCHANGED <<parseVars, callVars, limiterVars, outcomes, caller,
                   inputVars, prs, index, report, clients>>

\* cli.py 113-116.
GenerateReport ==
    /\ pc = "generate"
    /\ LET r == IF json_output THEN generate_json_report(analysis_results)
                ELSE generate_report(analysis_results)
       IN  /\ report' = r.val
           /\ IF r.raised THEN Fails("report")
              ELSE pc' = "done" /\ UNCHANGED failure
    /\ events' = Append(events, IF json_output THEN "generate_json_report"
                                ELSE "generate_report")
    /\ UNCHANGED <<parseVars, callVars, limiterVars, outcomes, caller,
                   inputVars, prs, index, analysis_results, clients>>

Next ==
    \/ ValidateConfig
    \/ Construct
    \/ \E outcome \in ListOutcomes, k \in 0..MaxPRs : ListPRs(outcome, k)
    \/ \E ok \in BOOLEAN : GetPrDetails(ok)
    \/ RateLimitStep
    \/ PromptStep
    \/ \E c \in RunOutcomes : ClassifierStep(c)
    \/ AppendResult
    \/ GenerateReport

Spec == Init /\ [][Next]_vars

\* ------------------------------------------------- boundary resolution

\* timedelta(days=30) of cli.py line 84.
ThirtyDays == 30

\* GitHubClient.get_release_date(repo, tag), github_client.py 117-140: the
\* date returned (<<>> is None) and the lookups made.  An exception of
\* get_release falls through to the latest release; any other exception
\* gives None.
get_release_date(r, tag) ==
    LET first == IF tag # <<>> THEN <<"get_release">> ELSE <<>>
    IN  IF tag # <<>> /\ r.tagged # <<>>
        THEN [date |-> r.tagged, lookups |-> first]
        ELSE [date |-> IF r.listing_raises THEN <<>>
                       ELSE IF Len(r.releases) > 0 THEN <<r.releases[1]>>
                       ELSE <<>>,
              lookups |-> Append(first, "get_releases")]

\* cli.py 74-90: the boundary the run works with, and the lookups made.
ResolveBoundary(given, tag, r, current) ==
    IF given # <<>> THEN [date |-> given, lookups |-> <<>>]
    ELSE LET found == get_release_date(r, tag)
         IN  IF found.date # <<>> THEN found
             ELSE [date |-> <<DateTime(current.date - ThirtyDays, current.time)>>,
                   lookups |-> found.lookups]

\* The dates an argument or a release may carry.
Dates ==
    {DateTime(Today - 10, 0), DateTime(Today - 20, 1), DateTime(Today - 45, 0)}

\* Release listings, the latest release first.
Listings ==
    {<<>>, <<DateTime(Today - 20, 1)>>,
     <<DateTime(Today - 20, 1), DateTime(Today - 45, 0)>>}

\* The repositories: a release found by its tag is one of those listed.
Repos ==
    {Repo(t, l, x) : t \in {<<>>} \cup {<<d>> : d \in Dates},
                     l \in Listings, x \in BOOLEAN}

Consistent(r) ==
    r.tagged # <<>> => \E n \in 1..Len(r.releases) : r.releases[n] = r.tagged[1]

InitSince ==
    /\ pc = "since"
    /\ content = <<>>
    /\ parsed = NoParse
    /\ IdleCall
    /\ FreshLimiter
    /\ NoRun
    /\ args \in [since_date : {<<>>} \cup {<<d>> : d \in Dates},
                 release_tag : {<<>>, <<"v1.0">>}]
    /\ since_date = args.since_date
    /\ repo \in {r \in Repos : Consistent(r)}
    /\ lookups = <<>>
    /\ today \in {DateTime(Today, t) : t \in {0, 43200}}
    /\ search = <<>>

\* cli.py 74-90 with the call of get_release_date.
ResolveSince ==
    /\ pc = "since"
    /\ LET b == ResolveBoundary(since_date, args.release_tag, repo, today)
       IN  /\ since_date' = b.date
           /\ lookups' = lookups \o b.lookups
    /\ pc' = "resolved"
    /\ UNCHANGED <<parseVars, callVars, limiterVars, outcomes, caller, env,
                   openai_config, token, json_output, args, repo, today,
                   search, prs, index, analysis_results, report, failure,
                   clients, events>>

NextSince == ResolveSince

SpecSince == InitSince /\ [][NextSince]_vars

\* ------------------------------------------------------ get_prs_since_date

\* max_prs of github_client.py line 176.
max_prs == 100

\* What the search yields for one change-set, after repo.get_pull: its
\* number, pr.merged and pr.merged_at (<<>> is None).
Pull(n, merged_at) ==
    [number |-> n, merged |-> merged_at # <<>>, merged_at |-> merged_at]

\* Qualifies comparing the two datetimes, not their dates.
QualifiesByInstant(pr, since) ==
    /\ pr.merged
    /\ pr.merged_at # <<>>
    /\ \/ pr.merged_at[1].date > since.date
       \/ /\ pr.merged_at[1].date = since.date
          /\ pr.merged_at[1].time >= since.time

\* Lines 189-195: pr.merged and pr.merged_at, and
\* pr.merged_at.date() >= since_date.date().
Qualifies(pr, since) ==
    /\ pr.merged
    /\ pr.merged_at # <<>>
    /\ pr.merged_at[1].date >= since.date

\* CapReached that lets one more change-set in.
CapReachedLate(count) == count > max_prs

\* Line 180: if count >= max_prs.
CapReached(count) == count >= max_prs

\* Lines 179-197: the loop goes through the search result in order and
\* appends every change-set that qualifies, counting them, until the count
\* makes it stop: it has taken the first c qualifying ones, c being the
\* least count at which CapReached holds, or all of them.
Taken(s, since) ==
    LET qualifying == SelectSeq(s, LAMBDA pr : Qualifies(pr, since))
        stops == {c \in 0..Len(qualifying) : CapReached(c)}
        c == IF stops = {} THEN Len(qualifying)
             ELSE CHOOSE m \in stops : \A n \in stops : m <= n
    IN  SubSeq(qualifying, 1, c)

\* get_prs_since_date(repo, since_date) for a since_date that is given,
\* lines 164-200: the numbers of the change-sets returned.
get_prs_since_date(s, since) ==
    LET result == Taken(s, since)
    IN  [n \in 1..Len(result) |-> result[n].number]

\* The boundaries get_prs_since_date is tried on: a day at midnight and at
\* noon.
Boundaries == {DateTime(Today - 30, t) : t \in {0, 43200}}

\* The merge times of a change-set: none (not merged), the day before the
\* boundary late in the evening, the day of the boundary one second past
\* midnight and in the evening, and the day after at midnight.
MergeTimes ==
    {<<>>, <<DateTime(Today - 31, 86399)>>, <<DateTime(Today - 30, 1)>>,
     <<DateTime(Today - 30, 72000)>>, <<DateTime(Today - 29, 0)>>}

\* The search numbers the change-sets as the platform likes: here the i-th
\* of n carries the number n + 1 - i.
Numbered(times) ==
    [n \in 1..Len(times) |-> Pull(Len(times) + 1 - n, times[n])]

ShortSearches ==
    UNION {[1..n -> MergeTimes] : n \in 0..MaxSearch}

\* Search results around the cap: k merged change-sets in a row, with or
\* without an unmerged one before them and after the first of them.
LongSearches ==
    {pre \o <<<<DateTime(Today - 30, 1)>>>> \o mid
         \o [n \in 1..(k - 1) |-> <<DateTime(Today - 29, 0)>>] :
        pre \in {<<>>, <<<<>>>>}, mid \in {<<>>, <<<<>>>>},
        k \in {max_prs - 1, max_prs, max_prs + 1, max_prs + MaxSearch}}

Searches == {Numbered(t) : t \in ShortSearches \cup LongSearches}

InitList ==
    /\ pc = "list"
    /\ content = <<>>
    /\ parsed = NoParse
    /\ IdleCall
    /\ FreshLimiter
    /\ NoRun
    /\ args = [since_date |-> <<>>, release_tag |-> <<>>]
    /\ since_date \in {<<b>> : b \in Boundaries}
    /\ repo = Repo(<<>>, <<>>, FALSE)
    /\ lookups = <<>>
    /\ today = DateTime(Today, 0)
    /\ search \in Searches

\* One call of get_prs_since_date(repo, since_date).
ListChangeSets ==
    /\ pc = "list"
    /\ prs' = get_prs_since_date(search, since_date[1])
    /\ pc' = "listed"
    /\ UNCHANGED <<parseVars, callVars, limiterVars, outcomes, caller,
                   inputVars, index, analysis_results, report, failure,
                   clients, events>>

NextList == ListChangeSets

SpecList == InitList /\ [][NextList]_vars

\* ------------------------------ get_prs_since_date without a since_date

\* The 30 of line 161.
DefaultDays == 30

\* The calendar datetime.replace works on, for a year of 365 days numbered
\* from 1 January: the number of days before the first of each month.
MonthStarts == <<0, 31, 59, 90, 120, 151, 181, 212, 243, 273, 304, 334>>

DaysOfYear == 1..(MonthStarts[12] + 31)

MonthOf(d) ==
    CHOOSE m \in 1..12 :
        MonthStarts[m] < d /\ (m = 12 \/ d <= MonthStarts[m + 1])

DayOfMonth(d) == d - MonthStarts[MonthOf(d)]

\* Lines 155-162: now at midnight, and its day of the month replaced by
\* max(1, day - 30): the month and the year stay.
DefaultSince(current) ==
    LET day == DayOfMonth(current.date)
        replaced == IF day - DefaultDays >= 1 THEN day - DefaultDays ELSE 1
    IN  DateTime(MonthStarts[MonthOf(current.date)] + replaced, 0)

\* The search finds nothing, or one change-set merged at noon of the day d.
DefaultSearches(d) == {<<>>, <<Pull(1, <<DateTime(d, 43200)>>)>>}

InitDefault ==
    /\ pc = "unbounded"
    /\ content = <<>>
    /\ parsed = NoParse
    /\ IdleCall
    /\ FreshLimiter
    /\ NoRun
    /\ args = [since_date |-> <<>>, release_tag |-> <<>>]
    /\ since_date = <<>>
    /\ repo = Repo(<<>>, <<>>, FALSE)
    /\ lookups = <<>>
    /\ today \in {DateTime(d, t) : d \in DaysOfYear, t \in {0, 43200}}
    /\ search \in DefaultSearches(today.date)

\* One call of get_prs_since_date(repo) with no since_date.
ListFromDefault ==
    /\ pc = "unbounded"
    /\ since_date' = <<DefaultSince(today)>>
    /\ prs' = get_prs_since_date(search, DefaultSince(today))
    /\ pc' = "defaulted"
    /\ UNCHANGED <<parseVars, callVars, limiterVars, outcomes, caller, env,
                   openai_config, token, json_output, args, repo, lookups,
                   today, search, index, analysis_results, report, failure,
                   clients, events>>

SpecDefault == InitDefault /\ [][ListFromDefault]_vars

\* ------------------------------------------------- claims on the parser

ParseDone == pc \in {"returned", "raised"}

IsStrList(v) ==
    v.t = "list" /\ \A i \in 1..Len(v.items) : v.items[i].t = "str"

\* The Verdict shape: a boolean user_facing, a docs_impact holding the three
\* lists, a string reasoning.
IsVerdict(v) ==
    /\ v.t = "obj"
    /\ HasKey(v, "user_facing") /\ Get(v, "user_facing").t = "bool"
    /\ HasKey(v, "reasoning") /\ Get(v, "reasoning").t = "str"
    /\ HasKey(v, "docs_impact") /\ Get(v, "docs_impact").t = "obj"
    /\ \A k \in {"update_existing", "create_new", "suggested_content"} :
           /\ HasKey(Get(v, "docs_impact"), k)
           /\ IsStrList(Get(Get(v, "docs_impact"), k))

\* C2: _parse_openai_response returns for every response text, never raises,
\* and what it returns is a Verdict; valid JSON of another shape is not
\* returned raw.
C2_ParseTotalVerdict ==
    ParseDone => ~parsed.raised /\ IsVerdict(parsed.val)

\* The three tiers of the claim, each on its own.
Tier1(c) == JsonLoads(c)

\* The fenced block: from the first json tag to the first fence after it.
HasFencedBlock(c) ==
    \E i, j \in 1..Len(c) : i < j /\ c[i] = FenceJson /\ c[j] \in {Fence, FenceJson}

FencedText(c) ==
    LET i == CHOOSE i \in 1..Len(c) :
                 c[i] = FenceJson /\ \A k \in 1..(i - 1) : c[k] # FenceJson
        j == CHOOSE j \in (i + 1)..Len(c) :
                 /\ c[j] \in {Fence, FenceJson}
                 /\ \A k \in (i + 1)..(j - 1) : c[k] \notin {Fence, FenceJson}
    IN  [k \in 1..(j - i - 1) |-> c[i + k]]

Tier2(c) ==
    IF HasFencedBlock(c) THEN JsonLoads(FencedText(c))
    ELSE [ok |-> FALSE, val |-> JNull]

HasBraces(c) == \E i, j \in 1..Len(c) : i < j /\ c[i] = "{" /\ c[j] = "}"

BracedText(c) ==
    LET i == CHOOSE i \in 1..Len(c) : c[i] = "{" /\ \A k \in 1..(i - 1) : c[k] # "{"
        j == CHOOSE j \in 1..Len(c) :
                 c[j] = "}" /\ \A k \in (j + 1)..Len(c) : c[k] # "}"
    IN  [k \in 1..(j - i + 1) |-> c[i + k - 1]]

Tier3(c) ==
    IF HasBraces(c) /\ Find(c, {"{"}, 1) < RFind(c, {"}"})
    THEN JsonLoads(BracedText(c))
    ELSE [ok |-> FALSE, val |-> JNull]

\* C3: the tiers are tried in the order whole text, fenced block, first "{"
\* to last "}"; the value bound to result is that of the first tier that
\* parses, no later tier is used when an earlier one parses, and the default
\* is bound only when all three fail.
C3_TierOrder ==
    ParseDone =>
        LET c == Strip(content)
            t1 == Tier1(c)
            t2 == Tier2(c)
            t3 == Tier3(c)
        IN  /\ t1.ok => parsed.tier = 1 /\ parsed.extracted = t1.val
            /\ ~t1.ok /\ t2.ok => parsed.tier = 2 /\ parsed.extracted = t2.val
            /\ ~t1.ok /\ ~t2.ok /\ t3.ok =>
                   parsed.tier = 3 /\ parsed.extracted = t3.val
            /\ ~t1.ok /\ ~t2.ok /\ ~t3.ok =>
                   parsed.tier = 4 /\ parsed.extracted = DefaultResult

\* A fenced block was there and did not parse, and the braces did.
C3_Witness ==
    /\ pc = "returned" /\ parsed.tier = 3
    /\ HasFencedBlock(Strip(content))
    /\ IsVerdict(parsed.extracted)

\* The sentences of a text that mention documentation, each stripped.
DocSentences(text) ==
    LET kept == SelectSeq(SplitSentences(text), MentionsDocumentation)
    IN  [i \in 1..Len(kept) |-> JStr(Join(Strip(kept[i])))]

SuggestedContent(v) == Get(Get(v, "docs_impact"), "suggested_content").items

IsProse(s) == \A i \in 1..Len(s) : s[i] \notin {Fence, FenceJson, "{", "}"}

\* C6: the JSON of a valid verdict in a json fenced block with prose around
\* it parses to the same fields as that JSON alone.
C6_FencedSameAsDirect ==
    ParseDone =>
        \A v \in ValidVerdicts, p \in Prefixes, s \in Suffixes :
            LET n == Len(p)
                opened == n >= 2 /\ p[n - 1] = FenceJson /\ IsProse(SubSeq(p, 1, n - 2))
                closed == Len(s) >= 2 /\ s[2] = Fence /\ IsProse(SubSeq(s, 3, Len(s)))
                direct == parse_openai_response(Render(v))
            IN  opened /\ closed /\ content = p \o Render(v) \o s =>
                    parsed.raised = direct.raised /\ parsed.val = direct.val

\* ----------------------------------------------------- claims on analyze_pr

AnalyzeDone == pc \in {"returned", "raised"}

\* C1: analyze_pr never raises, whichever of its steps raises.
C1_AnalyzeNeverRaises ==
    AnalyzeDone => ~analysis.raised

AllTiersFail(text) ==
    LET c == Strip(text)
    IN  ~Tier1(c).ok /\ ~Tier2(c).ok /\ ~Tier3(c).ok

Field(v, k) == Get(v, k)
Impact(v, k) == Get(Get(v, "docs_impact"), k)

\* The metadata of the result are those of the detail.
CarriesMetadata(v, d) ==
    /\ HasKey(v, "pr_number") /\ Field(v, "pr_number") = d.number
    /\ HasKey(v, "pr_title") /\ Field(v, "pr_title") = d.title
    /\ HasKey(v, "pr_url") /\ Field(v, "pr_url") = d.url

\* C4: when every tier fails on the response, the parser returns the default
\* verdict (user_facing true, update_existing and create_new empty, the fixed
\* reasoning), and analyze_pr returns it with the PR metadata and no error.
C4_DefaultVerdict ==
    pc = "returned" /\ ~cls.raised /\ AllTiersFail(cls.text) =>
        /\ ~parsed.raised
        /\ Field(parsed.val, "user_facing") = JTrue
        /\ Impact(parsed.val, "update_existing") = JList(<<>>)
        /\ Impact(parsed.val, "create_new") = JList(<<>>)
        /\ Field(parsed.val, "reasoning") = JStr(Magic)
        /\ ~analysis.raised
        /\ \A k \in {"user_facing", "docs_impact", "reasoning"} :
               Field(analysis.val, k) = Field(parsed.val, k)
        /\ CarriesMetadata(analysis.val, pr_details)
        /\ ~HasKey(analysis.val, "error")

C4_Witness ==
    /\ pc = "returned" /\ ~cls.raised /\ AllTiersFail(cls.text)
    /\ Impact(analysis.val, "suggested_content") # JList(<<>>)

\* C7: when the classifier call raises with message m, analyze_pr returns
\* user_facing false, three empty lists, reasoning "Error: " + m, error m and
\* the number, title and url of its argument.
C7_TransportError ==
    pc = "returned" /\ cls.raised =>
        /\ ~analysis.raised
        /\ Field(analysis.val, "user_facing") = JFalse
        /\ \A k \in {"update_existing", "create_new", "suggested_content"} :
               Impact(analysis.val, k) = JList(<<>>)
        /\ Field(analysis.val, "reasoning") = JStr("Error: " \o cls.msg)
        /\ HasKey(analysis.val, "error")
        /\ Field(analysis.val, "error") = JStr(cls.msg)
        /\ CarriesMetadata(analysis.val, pr_details)

C7_Witness ==
    /\ pc = "returned" /\ cls.raised /\ cls.msg = "API error"
    /\ pr_details = Detail(MaxPRs)

\* ---------------------------------------------------- claims on the limiter

\* C10: of any rate_limit_per_minute + 1 calls, the first and the last return
\* at least 60 seconds apart, so no 60-second window [t, t + 60) holds more
\* than rate_limit_per_minute returns; and with a limit of 2, of three calls
\* with no time between them the first two return without sleeping and the
\* third after at least 60 seconds less the time since the second.
C10_Budget ==
    /\ \A i, j \in 1..Len(calls) :
           j - i >= rate_limit_per_minute => calls[j].ret - calls[i].ret >= Window
    /\ rate_limit_per_minute = 2 /\ Len(calls) >= 3
       /\ calls[2].at = calls[1].ret /\ calls[3].at = calls[2].ret
       => /\ calls[1].slept = 0 /\ calls[2].slept = 0
          /\ calls[3].ret - calls[3].at >= Window - (calls[3].at - calls[2].ret)

C10_Witness ==
    /\ rate_limit_per_minute = 2 /\ Len(calls) = 4
    /\ calls[2].at = calls[1].ret /\ calls[3].at = calls[2].ret
    /\ calls[3].slept >= Window
    /\ calls[4].slept = 0

\* ------------------------------------------ claims on analyze_repository

\* The k-th classifier call of the run raised.
FailedAt(k) == k \in 1..Len(outcomes) /\ outcomes[k].raised

\* v is the error verdict of the change-set numbered n for the message m.
IsErrorVerdict(v, n, m) ==
    /\ HasKey(v, "user_facing") /\ Field(v, "user_facing") = JFalse
    /\ HasKey(v, "error") /\ Field(v, "error") = JStr(m)
    /\ HasKey(v, "pr_number") /\ Field(v, "pr_number") = PrNumber(n)

\* C8: a classifier call that raises for one change-set does not abort the
\* run.  analyze_pr returns, the run never fails because of the analysis,
\* the error verdict (not user-facing, carrying the error message) stands
\* at the place of that change-set in the results, every later change-set
\* is still fetched and classified, and the report generated holds one
\* result for each change-set retrieved.  What can still stop such a run is
\* a later retrieval or the writing of the report.
C8_TransportFailureIsolated ==
    \A k \in 1..MaxPRs + 1 : FailedAt(k) =>
        /\ failure # "analysis"
        /\ pc # "raised"
        /\ k <= Len(analysis_results) =>
                IsErrorVerdict(analysis_results[k], prs[k], outcomes[k].msg)
        /\ pc = "failed" => failure \in {"retrieval", "report"}
        /\ pc \in {"generate", "done"} =>
                /\ Len(outcomes) = Len(prs)
                /\ Len(analysis_results) = Len(prs)
        /\ pc = "done" =>
                /\ report.complete
                /\ report.total_prs = Len(prs)
                /\ json_output => report.analysis_results = analysis_results
                /\ ~json_output =>
                      \A n \in 1..Len(report.analysis_results) :
                          ~HasKey(report.analysis_results[n], "error")

\* The classifier raised for the first of two change-sets, the second was
\* classified as user-facing, and the report is written.
C8_Witness ==
    /\ pc = "done"
    /\ Len(prs) = 2
    /\ FailedAt(1)
    /\ ~FailedAt(2)
    /\ report.total_prs = 2
    /\ report.user_facing_prs = 1

\* C9: once the classifier has answered, whatever its responses were, the
\* run fails only if a retrieval fails.
C9_NoResponseSinksRun ==
    (pc = "failed" /\ Len(outcomes) > 0) => failure = "retrieval"

\* The time of the last reset of the counter before the k-th call: the
\* return of the latest earlier call that reset it (0, the value __init__
\* gives last_request_time, when there is none).
RECURSIVE LastReset(_)
LastReset(k) ==
    IF k <= 1 THEN 0
    ELSE IF calls[k - 1].reset THEN calls[k - 1].ret
    ELSE LastReset(k - 1)

\* The k-th call and the earlier ones never put more than N requests into
\* a 60-second window: a request goes out when its _rate_limit call returns,
\* and the k-th call is made a full window after the request N before it.
WithinBudget(k) ==
    \A m \in 1..k : \A n \in 1..m :
        m - n >= rate_limit_per_minute => calls[m].at - calls[n].ret >= Window

\* C11: before each request, if a full window has elapsed since the last
\* reset of the counter, the counter is reset and the call does not block;
\* otherwise, if the counter has reached N, the call blocks for the time
\* remaining in that window and resets the counter; and a caller that never
\* issues more than N requests in a window is never blocked.
C11_RuleSinceLastReset ==
    \A k \in 1..Len(calls) :
        LET elapsed == calls[k].at - LastReset(k)
        IN  /\ elapsed >= Window => calls[k].reset /\ calls[k].slept = 0
            /\ (elapsed < Window /\ calls[k].count >= rate_limit_per_minute) =>
                    calls[k].reset /\ calls[k].slept >= Window - elapsed
            /\ (elapsed < Window /\ calls[k].count < rate_limit_per_minute) =>
                    calls[k].slept = 0
            /\ WithinBudget(k) => calls[k].slept = 0

\* --------------------------------------------- claims on the retrieval

\* The latest release of the repository, <<>> when it has none.
LatestRelease == IF Len(repo.releases) > 0 THEN <<repo.releases[1]>> ELSE <<>>

\* C12: the boundary is the explicit date, verbatim and without a release
\* lookup; else the creation time of the tagged release when its lookup
\* succeeds; else, the tag lookup failed or no tag given, the creation time
\* of the latest release; and now minus 30 days when the repository has no
\* release.  The resolution never raises.
C12_BoundaryPrecedence ==
    pc = "resolved" =>
        /\ Len(since_date) = 1
        /\ args.since_date # <<>> =>
                since_date = args.since_date /\ lookups = <<>>
        /\ args.since_date = <<>> =>
                IF args.release_tag # <<>> /\ repo.tagged # <<>>
                THEN since_date = repo.tagged
                ELSE IF LatestRelease # <<>>
                THEN since_date = LatestRelease
                ELSE since_date = <<DateTime(today.date - ThirtyDays, today.time)>>

\* The change-set was merged on the calendar day of the boundary or later.
MergedOnOrAfter(pr, since) ==
    pr.merged /\ pr.merged_at # <<>> /\ ~(pr.merged_at[1].date < since.date)

\* The numbers of the change-sets of the search that were merged on or
\* after the day of the boundary, in the order of the search.
MergedSince(s, since) ==
    LET merged == SelectSeq(s, LAMBDA pr : MergedOnOrAfter(pr, since))
    IN  [n \in 1..Len(merged) |-> merged[n].number]

Listed(n) == \E m \in 1..Len(prs) : prs[m] = n

\* C13: a change-set of the search is returned if and only if it is merged
\* and the calendar date of its merge is on or after that of the boundary,
\* whatever the times of day are (searches below the cap of C14).
C13_DateOnlyComparison ==
    (pc = "listed" /\ Len(MergedSince(search, since_date[1])) <= max_prs) =>
        \A n \in 1..Len(search) :
            Listed(search[n].number) <=> MergedOnOrAfter(search[n], since_date[1])

\* A change-set merged one second past midnight of the boundary's day is
\* returned for a boundary at noon of that day, and one merged late on the
\* day before is not.
C13_Witness ==
    /\ pc = "listed"
    /\ since_date[1].time = 43200
    /\ \E n \in 1..Len(search) :
          /\ search[n].merged_at = <<DateTime(since_date[1].date, 1)>>
          /\ Listed(search[n].number)
    /\ \E n \in 1..Len(search) :
          /\ search[n].merged_at = <<DateTime(since_date[1].date - 1, 86399)>>
          /\ ~Listed(search[n].number)

\* C14: whatever the search yields, at most 100 change-sets are returned:
\* the first qualifying ones, in the order of the search.
C14_FirstHundred ==
    pc = "listed" =>
        LET qualifying == MergedSince(search, since_date[1])
        IN  /\ Len(prs) <= 100
            /\ Len(prs) = IF Len(qualifying) < 100 THEN Len(qualifying) ELSE 100
            /\ prs = SubSeq(qualifying, 1, Len(prs))

\* More than 100 change-sets qualified and 100 were returned.
C14_Witness ==
    /\ pc = "listed"
    /\ Len(MergedSince(search, since_date[1])) > 100
    /\ Len(prs) = 100
    /\ \E n \in 1..Len(search) : ~search[n].merged

\* -------------------------------------------------- claims on the run

Happened(e) == \E n \in 1..Len(events) : events[n] = e
Count(e) == Cardinality({n \in 1..Len(events) : events[n] = e})

\* C15: when the retrieval returns no change-set the run does not abort and
\* calls neither the limiter nor the classifier: it completes with a report
\* whose total is 0, whose user-facing count is 0 and which carries the
\* no-changes marker.
C15_EmptyRetrieval ==
    (Happened("search") /\ prs = <<>> /\ failure # "retrieval") =>
        /\ pc = "done"
        /\ failure = "none"
        /\ report.complete
        /\ report.total_prs = 0
        /\ report.user_facing_prs = 0
        /\ report.no_changes
        /\ ~Happened("classify") /\ ~Happened("rate_limit")
        /\ ~Happened("get_pr_details")
        /\ outcomes = <<>> /\ calls = <<>>

C15_Witness ==
    /\ pc = "done"
    /\ prs = <<>>
    /\ Happened("search")
    /\ report.no_changes
    /\ report.total_prs = 0

\* The requests of the retrieval.
RetrievalRequests == {"get_repository", "search", "get_pr_details"}

\* C16: when a retrieval request raises, the run has failed and stays as
\* it is: the request that raised is the last thing it did, no later
\* change-set is fetched or classified, neither report generator was
\* invoked and no report exists, whatever was classified before.
C16_RetrievalFatal ==
    failure = "retrieval" =>
        /\ pc = "failed"
        /\ events[Len(events)] \in RetrievalRequests
        /\ ~Happened("generate_report") /\ ~Happened("generate_json_report")
        /\ report = NoReport
        /\ outstanding = 0
        /\ Count("get_pr_details") = Len(analysis_results) + 1
              \/ ~Happened("get_pr_details")

\* The detail of the second change-set could not be fetched after the first
\* had been classified.
C16_Witness ==
    /\ failure = "retrieval"
    /\ Len(prs) = 2
    /\ Len(analysis_results) = 1
    /\ events[Len(events)] = "get_pr_details"
    /\ report = NoReport

\* A credential is missing: the variable is unset or empty.
Missing(k) == env[k] = <<>> \/ (env[k] # <<>> /\ env[k][1] = "")

\* C17: with GITHUB_TOKEN or OPENAI_API_KEY unset or empty, validate_config
\* reports that key, and the run raises before it constructs a client and
\* before any request to the platform or the classifier.
C17_ConfigurationFirst ==
    caller = "analyze_repository" =>
        /\ \A k \in {"GITHUB_TOKEN", "OPENAI_API_KEY"} :
              Missing(k) <=> k \in validate_config(env)
        /\ (Missing("GITHUB_TOKEN") \/ Missing("OPENAI_API_KEY")) =>
              /\ pc \in {"validate", "failed"}
              /\ pc = "failed" => failure = "configuration"
              /\ clients = {}
              /\ events = <<>>
              /\ outcomes = <<>> /\ calls = <<>> /\ outstanding = 0

\* The run has raised over an empty GITHUB_TOKEN, the other credential set.
C17_Witness ==
    /\ pc = "failed"
    /\ failure = "configuration"
    /\ env.GITHUB_TOKEN = <<"">>
    /\ ~Missing("OPENAI_API_KEY")
    /\ clients = {}

\* What the loop does for one change-set, in this order.
PerItem == <<"get_pr_details", "rate_limit", "classify", "append">>

\* The events of the loop, in the order they happened.
LoopEvents ==
    SelectSeq(events, LAMBDA e : \E n \in 1..4 : PerItem[n] = e)

\* C18: the change-sets are classified one after the other in the order of
\* the retrieval.  Each gets one pass of the limiter and then one
\* classifier request; the next one is taken up only after the result of
\* the one before is appended; never more than one request is outstanding;
\* and the i-th result, in the list and in the report, carries the number
\* of the i-th change-set retrieved.
C18_Sequential ==
    caller = "analyze_repository" =>
        /\ outstanding <= 1
        /\ \A n \in 1..Len(LoopEvents) : LoopEvents[n] = PerItem[((n - 1) % 4) + 1]
        /\ Count("rate_limit") = Len(calls)
        /\ Count("classify") = Len(outcomes) + outstanding
        /\ Count("append") = Len(analysis_results)
        /\ Len(analysis_results) <= Len(prs)
        /\ \A n \in 1..Len(analysis_results) :
              /\ HasKey(analysis_results[n], "pr_number")
              /\ Field(analysis_results[n], "pr_number") = PrNumber(prs[n])
        /\ (pc = "done" /\ prs # <<>>) =>
              /\ Count("classify") = Len(prs)
              /\ Count("rate_limit") = Len(prs)
              /\ report.format = "json" =>
                    report.analysis_results = analysis_results

\* Two change-sets, numbered 2 and 1 in the order of the retrieval, are in
\* the JSON report in that order.
C18_Witness ==
    /\ pc = "done"
    /\ report.format = "json"
    /\ Len(report.analysis_results) = 2
    /\ Field(report.analysis_results[1], "pr_number") = PrNumber(2)
    /\ Field(report.analysis_results[2], "pr_number") = PrNumber(1)
    /\ Count("classify") = 2

\* The items of the results whose user_facing is true.
IsUserFacing(pr) == HasKey(pr, "user_facing") /\ Get(pr, "user_facing") = JTrue
UserFacingItems == SelectSeq(analysis_results, IsUserFacing)

\* C19: in a report of either format, and for the empty list too, the
\* total is the length of the list of results and the user-facing count is
\* the number of items whose user_facing is true.
C19_Counts ==
    report # NoReport =>
        /\ report.total_prs = Len(analysis_results)
        /\ report.user_facing_prs = Len(UserFacingItems)

\* The entries of list k in the user-facing items.
EntriesOf(k) ==
    UNION { LET l == ListOf(ImpactOf(UserFacingItems[n]), k)
            IN  IF l.t = "list" THEN {l.items[m] : m \in 1..Len(l.items)}
                ELSE {}
            : n \in 1..Len(UserFacingItems) }

\* The results the other way round.
Reversed == [n \in 1..Len(analysis_results) |->
                analysis_results[Len(analysis_results) + 1 - n]]

\* C20: each of the two summary lists of a complete markdown report holds
\* the entries of that list in the user-facing items, no other entry, each
\* once and in lexicographic order; the results in another order, or every
\* item twice, give the same two lists.
C20_SummaryLists ==
    (report.format = "markdown" /\ report.complete) =>
        \A k \in {"update_existing", "create_new"} :
            /\ {report[k][n] : n \in 1..Len(report[k])} = EntriesOf(k)
            /\ Len(report[k]) = Cardinality(EntriesOf(k))
            /\ \A n \in 1..Len(report[k]) : \A m \in 1..(n - 1) :
                    /\ report[k][m].t = "str" /\ report[k][n].t = "str"
                    /\ Rank(report[k][m]) < Rank(report[k][n])
            /\ generate_report(Reversed).val[k] = report[k]
            /\ generate_report(analysis_results \o analysis_results).val[k]
                    = report[k]

\* The suggested_content entries of the user-facing items from the n-th
\* on, each with the number of its item.
RECURSIVE Emitted(_)
Emitted(n) ==
    IF n > Len(UserFacingItems) THEN <<>>
    ELSE LET pr == UserFacingItems[n]
             own == ListOf(ImpactOf(pr), "suggested_content")
             entries == IF own.t = "list" THEN own.items ELSE <<>>
         IN  [m \in 1..Len(entries) |->
                 [pr |-> Field(pr, "pr_number"), content |-> entries[m]]]
             \o Emitted(n + 1)

\* C21: the flat suggestions list of a complete markdown report is the
\* concatenation, over the user-facing items in their order, of each
\* item's suggested_content entries in their order, each with the number
\* of its item: nothing reordered, nothing dropped, nothing added.
C21_FlatSuggestions ==
    (report.format = "markdown" /\ report.complete) =>
        report.suggestions = Emitted(1)

\* The entries of list k of one item, as they stand.
OwnEntries(pr, k) ==
    LET l == ListOf(ImpactOf(pr), k)
    IN  IF l.t = "list" THEN l.items ELSE <<>>

\* C22: a complete markdown report has one detail block for each
\* user-facing item and for no other, in the order of the items, each with
\* the item's own update, create and suggestion entries in their order.
C22_DetailBlocks ==
    (report.format = "markdown" /\ report.complete) =>
        /\ Len(report.details) = Len(UserFacingItems)
        /\ \A n \in 1..Len(report.details) :
              /\ n <= Len(UserFacingItems)
              /\ report.details[n].pr_number =
                    Field(UserFacingItems[n], "pr_number")
              /\ \A k \in {"update_existing", "create_new", "suggested_content"} :
                    report.details[n][k] = OwnEntries(UserFacingItems[n], k)

\* No item of the results is user-facing: each has user_facing false.
NoneUserFacing ==
    \A n \in 1..Len(analysis_results) :
        /\ HasKey(analysis_results[n], "user_facing")
        /\ Get(analysis_results[n], "user_facing") = JFalse

\* C23: a markdown report over results none of which is user-facing is
\* written to the end without an exception: it has the totals and the
\* no-user-facing-changes marker and no update, create, suggestion or
\* detail section.
C23_NoUserFacing ==
    (pc \in {"done", "failed"} /\ report.format = "markdown" /\ NoneUserFacing) =>
        /\ pc = "done" /\ failure = "none"
        /\ report.complete
        /\ report.total_prs = Len(analysis_results)
        /\ report.user_facing_prs = 0
        /\ report.no_changes
        /\ report.update_existing = <<>> /\ report.create_new = <<>>
        /\ report.suggestions = <<>> /\ report.details = <<>>

\* Two change-sets were classified, neither as user-facing, and the
\* markdown report is written.
C23_Witness ==
    /\ pc = "done"
    /\ report.format = "markdown"
    /\ Len(analysis_results) = 2
    /\ NoneUserFacing
    /\ report.no_changes

\* The JSON report of a finished run.
JsonWritten == pc = "done" /\ report.format = "json"

\* C24 as the specification words it: the JSON report has the fields
\* repository, generated_at, since, total_prs, user_facing_prs and
\* analysis_results, the last one holding every analysed item in the order
\* given and total_prs being its length.
C24_JsonFieldsSince ==
    JsonWritten =>
        /\ report.fields = {"repository", "generated_at", "since", "total_prs",
                            "user_facing_prs", "analysis_results"}
        /\ report.analysis_results = analysis_results
        /\ report.total_prs = Len(analysis_results)

\* C24: the JSON report has the fields repository, generated_at,
\* since_date, total_prs, user_facing_prs and analysis_results, the last
\* one holding every analysed item, user-facing or not, in the order given
\* and total_prs being its length.
C24_JsonFields ==
    JsonWritten =>
        /\ report.fields = {"repository", "generated_at", "since_date",
                            "total_prs", "user_facing_prs", "analysis_results"}
        /\ report.analysis_results = analysis_results
        /\ report.total_prs = Len(analysis_results)
        /\ report.complete

\* The JSON report holds two items, the first not user-facing and the
\* second user-facing.
C24_Witness ==
    /\ JsonWritten
    /\ Len(report.analysis_results) = 2
    /\ ~IsUserFacing(report.analysis_results[1])
    /\ IsUserFacing(report.analysis_results[2])
    /\ report.total_prs = 2

\* C25: whatever analyze_pr returns, after a parsed response, after the
\* default verdict or after an exception, is a dictionary whose pr_number,
\* pr_title and pr_url are the number, title and url of the detail it was
\* called with, also when the response brought keys of those names.
C25_Metadata ==
    (pc = "returned" /\ ~analysis.raised) =>
        /\ analysis.val.t = "obj"
        /\ CarriesMetadata(analysis.val, pr_details)

\* The response had a pr_number of its own, another one than the detail.
C25_Witness ==
    /\ pc = "returned" /\ ~analysis.raised
    /\ ~cls.raised /\ ~parsed.raised
    /\ parsed.val.t = "obj" /\ HasKey(parsed.val, "pr_number")
    /\ Get(parsed.val, "pr_number") # pr_details.number
    /\ Get(analysis.val, "pr_number") = pr_details.number

\* C26: a response that one of the three tiers parses is returned exactly
\* as parsed, whatever its reasoning says: the sentences of the text are
\* added to suggested_content only when all three tiers failed.
C26_ParsedReturnedAsIs ==
    (ParseDone /\ parsed.tier \in 1..3) =>
        /\ ~parsed.raised
        /\ parsed.val = parsed.extracted

\* C27: with both credentials set and the configuration get_openai_config
\* returns, OpenAIAnalyzer is constructed and the run goes on to the
\* retrieval of the repository instead of failing at start-up.
C27_ConstructorKeysShipped ==
    /\ ConstructorKeys \subseteq ShippedKeys
    /\ (/\ openai_config = ShippedKeys
        /\ validate_config(env) = {}
        /\ pc \notin {"validate", "construct"}) =>
            /\ failure # "construction"
            /\ "OpenAIAnalyzer" \in clients

\* C28: get_prs_since_date called without a since_date takes as boundary
\* midnight of the day 30 days before the current day, whatever the
\* current day is.
C28_ThirtyDaysBefore ==
    pc = "defaulted" =>
        since_date = <<DateTime(today.date - DefaultDays, 0)>>

\* C29: a run that completes has written the report of the format asked
\* for: the JSON report with json_output, the markdown report without, also
\* when the retrieval returned no change-set.
C29_FormatHonoured ==
    pc = "done" =>
        report.format = IF json_output THEN "json" ELSE "markdown"

\* The counter after the k-th call, and the stamp before it.
CountAfter(k) == IF k = Len(calls) THEN request_count ELSE calls[k + 1].count
StampBefore(k) == IF k = 1 THEN 0 ELSE calls[k - 1].ret

\* C30: with a clock that does not go backwards and a limit of at least 1,
\* every call of _rate_limit sets the counter back when it has waited or
\* when the window has passed, then adds one to it, so that the counter is
\* between 1 and the limit after every call; it sleeps at most once, for
\* at most 60 seconds, returns, and leaves the time of its return in
\* last_request_time whether it waited or not.
C30_LimiterBookkeeping ==
    /\ \A k \in 1..Len(calls) :
          LET c == calls[k]
              passed == c.at - StampBefore(k) >= Window
              waited == ~passed /\ c.count >= rate_limit_per_minute
          IN  /\ CountAfter(k) = (IF passed \/ waited THEN 0 ELSE c.count) + 1
              /\ 1 <= CountAfter(k) /\ CountAfter(k) <= rate_limit_per_minute
              /\ c.wait = (IF waited THEN Window - (c.at - StampBefore(k)) ELSE 0)
              /\ 0 <= c.wait /\ c.wait <= Window
              /\ c.ret >= c.at + c.wait
              /\ ~waited => c.slept = 0
    /\ Len(calls) >= 1 =>
          /\ last_request_time = calls[Len(calls)].ret
          /\ pc = "idle" => now = last_request_time

\* A call right after one that used up a limit of 1 has waited the full 60
\* seconds and left the counter at 1; the call before it did not wait.
C30_Witness ==
    /\ rate_limit_per_minute = 1
    /\ Len(calls) = 2
    /\ calls[1].wait = 0
    /\ calls[2].wait = Window
    /\ request_count = 1
    /\ last_request_time = calls[2].at + calls[2].slept

====
